---- MODULE Spec2Model ----
(***************************************************************************)
(* A model of gemini-py's scene/entity core: Entity (parent, pos, move),   *)
(* Sprite (image), AnimatedSprite (current_frame, next_frame) and Scene    *)
(* (add_to_scene, render, get_background, is_entity_at), with              *)
(* utils.correct_position.                                                 *)
(*                                                                         *)
(* A Python str is a sequence of tokens: one token per printed character,  *)
(* "NL" for the newline, "VOID" for Scene._void_char and one token per     *)
(* escape code of txtcolours, so that string concatenation is \o and       *)
(* string equality is equality of sequences.                               *)
(***************************************************************************)
EXTENDS Integers, Sequences, FiniteSets, TLC

\* ---------------------------------------------------------------- bounds
\* Width of scene "A"; scene "B" is one column narrower, both have two rows.
Width == 3
\* |dx|, |dy| of a move and the range of a written coordinate.
MaxDelta == 2
\* Cap on the length of a scene's children list (same-scene assignment grows it).
MaxChildren == 2
\* Longest frame list of the AnimatedSprite and range of a written frame index.
MaxFrames == 3
MaxIndex == 4

\* ------------------------------------------------------------- vocabulary
None == "None"
Scenes == {"A", "B"}
Ents == {"e1", "e2", "e3"}

NL == "NL"
SPACE == " "
\* Scene._void_char
VOID == "VOID"
\* Scene.__init__'s default clear_char and Entity.__init__'s default fill_char
SHADE == "~"
BLOCK == "#"
\* txtcolours
END == <<"ESC0">>
RED == <<"ESC91">>
GREEN == <<"ESC92">>

VARIABLES
  scenes,         \* Scene -> [size, clear_char, bg_colour]
  children,       \* Scene.children: Scene -> sequence of entities
  parent,         \* Entity._parent
  pos,            \* Entity._pos
  hidden,         \* Entity.hidden
  attr,           \* the fields of an entity no modelled operation rewrites
  stage,          \* the stage the last call returned, when it was Scene.render
  frames,         \* AnimatedSprite.frames
  current_frame,  \* AnimatedSprite._current_frame
  image,          \* the AnimatedSprite's Sprite._image
  last            \* the last call: operation, arguments, state before, outcome

vars == <<scenes, children, parent, pos, hidden, attr, stage, frames,
          current_frame, image, last>>

\* ---------------------------------------------------------------- strings
Abs(n) == IF n < 0 THEN -n ELSE n
Sign(n) == IF n > 0 THEN 1 ELSE -1
MaxOf(S) == CHOOSE m \in S : \A n \in S : n <= m

\* str.split("\n")
RECURSIVE Split(_)
Split(s) ==
  IF s = <<>> THEN << <<>> >>
  ELSE IF Head(s) = NL THEN << <<>> >> \o Split(Tail(s))
  ELSE LET r == Split(Tail(s)) IN << <<Head(s)>> \o Head(r) >> \o Tail(r)

\* str.strip("\n")
RECURSIVE LStrip(_)
LStrip(s) == IF s # <<>> /\ Head(s) = NL THEN LStrip(Tail(s)) ELSE s

RECURSIVE RStrip(_)
RStrip(s) ==
  IF s # <<>> /\ s[Len(s)] = NL THEN RStrip(SubSeq(s, 1, Len(s) - 1)) ELSE s

Strip(s) == RStrip(LStrip(s))

\* str.count("\n")
CountNL(s) == Cardinality({i \in 1..Len(s) : s[i] = NL})

\* str * n
RECURSIVE Repeat(_, _)
Repeat(s, n) == IF n <= 0 THEN <<>> ELSE s \o Repeat(s, n - 1)

\* str.replace(Scene._void_char, ' ')
ReplaceVoid(s) == [i \in 1..Len(s) |-> IF s[i] = VOID THEN SPACE ELSE s[i]]

\* ------------------------------------------------------------------ utils
PyMod(a, b) == a % b

\* correct_position(pos, limits), lines 21-22
correct_position(p, limits) == <<PyMod(p[1], limits[1]), PyMod(p[2], limits[2])>>

\* Vec2D.__add__
Vec2DAdd(a, b) == <<a[1] + b[1], a[2] + b[2]>>

\* Axis.X.value = 0, Axis.Y.value = 1 (a 1-based index here)
AxisValue(axis) == IF axis = "X" THEN 1 ELSE 2

\* Axis.vector(abs_value, rel_value): abs_value along the axis, rel_value across
AxisVector(axis, abs_value, rel_value) ==
  IF axis = "X" THEN <<abs_value, rel_value>> ELSE <<rel_value, abs_value>>

\* ------------------------------------------------------------------ Scene
get_background(s) ==
  scenes[s].bg_colour \o <<scenes[s].clear_char>>
    \o (IF scenes[s].bg_colour # <<>> THEN END ELSE <<>>)

Cells(s) == (0..(scenes[s].size[1] - 1)) \X (0..(scenes[s].size[2] - 1))

\* Sprite.image (getter)
SpriteImage(e, hid) ==
  IF hid[e] THEN Repeat(<<SPACE, NL>>, attr[e].size[2]) ELSE attr[e].image

\* Entity.fill_char (getter)
fill_char(e, hid) ==
  IF hid[e] THEN get_background(parent[e]) ELSE <<attr[e].fill_char>>

\* render, lines 270-278: the pixel of local cell (x, y); the sprite's lookup
\* falls back to a space when it raises
Pixel(e, x, y, hid) ==
  IF attr[e].kind = "Sprite"
  THEN LET rows == Split(SpriteImage(e, hid))
       IN IF y + 1 <= Len(rows) /\ x + 1 <= Len(rows[y + 1])
          THEN <<rows[y + 1][x + 1]>> ELSE <<SPACE>>
  ELSE fill_char(e, hid)

\* render, line 275
Skipped(e, x, y, hid) ==
  attr[e].kind = "Sprite" /\ Pixel(e, x, y, hid) = <<SPACE>> /\ attr[e].transparent

\* render, line 282: what is written to the stage
CellText(e, x, y, hid) ==
  attr[e].colour \o ReplaceVoid(Pixel(e, x, y, hid))
    \o (IF attr[e].colour # <<>> THEN END ELSE <<>>)

\* render, lines 267-282: x outer, y inner; i counts the local cells
RECURSIVE PaintEntity(_, _, _, _, _, _)
PaintEntity(stg, s, e, i, hid, ps) ==
  LET w == attr[e].size[1]
      h == attr[e].size[2]
  IN IF i >= w * h THEN stg
     ELSE LET x == i \div h
              y == i % h
              point == correct_position(<<ps[e][1] + x, ps[e][2] + y>>, scenes[s].size)
          IN PaintEntity(IF Skipped(e, x, y, hid) THEN stg
                         ELSE [stg EXCEPT ![point] = CellText(e, x, y, hid)],
                         s, e, i + 1, hid, ps)

\* a sort without reverse=True: ascending layers
RECURSIVE InsertAscending(_, _)
InsertAscending(sorted, e) ==
  IF sorted = <<>> THEN <<e>>
  ELSE IF attr[Head(sorted)].layer <= attr[e].layer
       THEN <<Head(sorted)>> \o InsertAscending(Tail(sorted), e)
       ELSE <<e>> \o sorted

\* sorted(entity_list, key=layer, reverse=True): stable, equal layers keep their order
RECURSIVE InsertByLayer(_, _)
InsertByLayer(sorted, e) ==
  IF sorted = <<>> THEN <<e>>
  ELSE IF attr[Head(sorted)].layer >= attr[e].layer
       THEN <<Head(sorted)>> \o InsertByLayer(Tail(sorted), e)
       ELSE <<e>> \o sorted

RECURSIVE SortedByLayer(_, _)
SortedByLayer(done, rest) ==
  IF rest = <<>> THEN done
  ELSE SortedByLayer(InsertByLayer(done, Head(rest)), Tail(rest))

InLayers(e, layers) == \E i \in 1..Len(layers) : layers[i] = attr[e].layer

\* render, line 256
entity_list(s, layers) ==
  IF layers # <<>> /\ layers # <<-1>>
  THEN SelectSeq(children[s], LAMBDA e : InLayers(e, layers))
  ELSE children[s]

RECURSIVE PaintAll(_, _, _, _, _)
PaintAll(stg, s, order, hid, ps) ==
  IF order = <<>> THEN stg
  ELSE PaintAll(PaintEntity(stg, s, Head(order), 0, hid, ps), s, Tail(order), hid, ps)

\* Scene.render(is_display=False, layers, run_functions=False): the stage returned
render(s, layers, hid, ps) ==
  PaintAll([c \in Cells(s) |-> get_background(s)], s,
           SortedByLayer(<<>>, entity_list(s, layers)), hid, ps)

\* Scene.is_entity_at(pos, layers, bake) with a bake given
is_entity_at(s, p, bake) ==
  bake[correct_position(p, scenes[s].size)] # get_background(s)

\* ----------------------------------------------------------------- Entity
NoEnt ==
  [kind |-> "none", size |-> <<0, 0>>, layer |-> 0, colour |-> <<>>,
   collisions |-> <<>>, fill_char |-> SPACE, image |-> <<>>, transparent |-> TRUE]

Alive(e) == attr[e].kind # "none"

NoCall ==
  [op |-> "none", e |-> None, x |-> 0, y |-> 0, v |-> None, old |-> None,
   layers |-> <<>>, pos0 |-> <<0, 0>>, hid0 |-> FALSE, ret |-> 0, err |-> None]

\* a setter that stores the value as written
PosValueRaw(par, value) == value

\* Entity.pos (setter): the value stored for an entity whose parent is par
PosValue(par, value) ==
  IF par # None THEN correct_position(value, scenes[par].size) ELSE value

\* list.remove(x): drops the first occurrence
RECURSIVE RemoveFirst(_, _)
RemoveFirst(seq, e) ==
  IF seq = <<>> THEN <<>>
  ELSE IF Head(seq) = e THEN Tail(seq)
  ELSE <<Head(seq)>> \o RemoveFirst(Tail(seq), e)

InSeq(seq, e) == \E i \in 1..Len(seq) : seq[i] = e
Count(seq, e) == Cardinality({i \in 1..Len(seq) : seq[i] = e})

\* Entity.parent (setter), line 26: whether the entity is removed from its parent
Detaches(old, value) == (old # value \/ value = None) /\ old # None

\* Scene.add_to_scene: the children after the append
add_to_scene(ch, s, e) == [ch EXCEPT ![s] = Append(@, e)]

\* Sprite.__init__, line 148: size from the image as passed
SpriteSize(img) ==
  <<MaxOf({Len(Split(img)[i]) : i \in 1..Len(Split(img))}), CountNL(img) + 1>>

\* Entity.__init__ / Sprite.__init__; a is the record of constructor arguments
\* (main_scene.main_scene is unset, extra_characters, move_functions are empty)
Construct(e, a, p, par) ==
  /\ ~Alive(e)
  /\ children' = IF par # None THEN add_to_scene(children, par, e) ELSE children
  /\ parent' = [parent EXCEPT ![e] = par]
  /\ pos' = [pos EXCEPT ![e] = PosValue(par, p)]
  /\ hidden' = [hidden EXCEPT ![e] = a.hidden]
  /\ attr' = [attr EXCEPT ![e] =
       [kind |-> a.kind,
        size |-> IF a.kind = "Sprite" THEN SpriteSize(a.image) ELSE a.size,
        layer |-> a.layer, colour |-> a.colour, collisions |-> a.collisions,
        fill_char |-> a.fill_char,
        image |-> Strip(a.image), transparent |-> a.transparent]]
  /\ last' = [NoCall EXCEPT !.op = "init", !.e = e, !.v = par]
  /\ stage' = <<>>
  /\ UNCHANGED <<scenes, frames, current_frame, image>>

\* entity.parent = value
SetParent(e, value) ==
  /\ Alive(e)
  /\ value # None => Len(children[value]) < MaxChildren
  /\ LET old == parent[e]
         call == [NoCall EXCEPT !.op = "parent", !.e = e, !.v = value, !.old = old]
     IN IF Detaches(old, value) /\ ~InSeq(children[old], e)
        THEN \* list.remove raises ValueError before anything is changed
             /\ last' = [call EXCEPT !.err = "ValueError"]
             /\ UNCHANGED <<children, parent>>
        ELSE LET ch1 == IF Detaches(old, value)
                        THEN [children EXCEPT ![old] = RemoveFirst(@, e)]
                        ELSE children
             IN /\ children' = IF value # None THEN add_to_scene(ch1, value, e) ELSE ch1
                /\ parent' = IF value # None THEN [parent EXCEPT ![e] = value] ELSE parent
                /\ last' = call
  /\ stage' = <<>>
  /\ UNCHANGED <<scenes, pos, hidden, attr, frames, current_frame, image>>

\* entity.pos = value
SetPos(e, value) ==
  /\ Alive(e)
  /\ pos' = [pos EXCEPT ![e] = PosValue(parent[e], value)]
  /\ last' = [NoCall EXCEPT !.op = "pos", !.e = e, !.x = value[1], !.y = value[2]]
  /\ stage' = <<>>
  /\ UNCHANGED <<scenes, children, parent, hidden, attr, frames,
                 current_frame, image>>

\* a move that collides whatever it is asked
CollideAlways(e, collide) == TRUE

\* move, lines 73-74: collide as move uses it ("None": the argument is left out)
Collide(e, collide) ==
  IF collide = "None" THEN attr[e].collisions # <<>> ELSE collide = "True"

\* a leading edge one cell ahead of the position, whatever the entity's size
LeadingOffsetUnit(e, axis, p, j) == (IF p > 0 THEN 1 ELSE -1) + j * Sign(p)

\* step_collide, line 94: the leading edge's offset along the axis at step j
LeadingOffset(e, axis, p, j) ==
  (IF p > 0 THEN attr[e].size[AxisValue(axis)] ELSE -1) + j * Sign(p)

\* step_collide, line 93: how many cells the leading edge has
WallLength(e, axis) == attr[e].size[IF axis = "Y" THEN 1 ELSE 2]

\* a probe of the first cell of the leading edge only
StepHitsFirstCell(e, axis, p, p0, bake, j) ==
  /\ WallLength(e, axis) > 0
  /\ is_entity_at(parent[e],
                  Vec2DAdd(p0, AxisVector(axis, LeadingOffset(e, axis, p, j), 0)), bake)

\* step_collide, lines 93-97: whether step j hits something
StepHits(e, axis, p, p0, bake, j) ==
  \E wall_p \in 0..(WallLength(e, axis) - 1) :
    is_entity_at(parent[e],
                 Vec2DAdd(p0, AxisVector(axis, LeadingOffset(e, axis, p, j), wall_p)),
                 bake)

\* step_collide, lines 92-100: the value of colliding when the loop ends
RECURSIVE StepLoop(_, _, _, _, _, _)
StepLoop(e, axis, p, p0, bake, j) ==
  IF j >= Abs(p) THEN Abs(p)
  ELSE IF StepHits(e, axis, p, p0, bake, j) THEN j
  ELSE StepLoop(e, axis, p, p0, bake, j + 1)

\* step_collide: the position it leaves and whether it set has_collided
step_collide(e, axis, p, p0, bake) ==
  IF p = 0 THEN [pos |-> p0, hit |-> FALSE]
  ELSE LET colliding == StepLoop(e, axis, p, p0, bake, 0)
       IN [pos |-> PosValue(parent[e],
                            Vec2DAdd(p0, AxisVector(axis, colliding * Sign(p), 0))),
           hit |-> colliding < Abs(p)]

\* move, line 106: the hidden flag once the collision pass is over
RestoreHidden(e, prev_hidden) == [hidden EXCEPT ![e] = prev_hidden]

\* entity.move(x, y, collide) with run_functions and render left at their defaults
\* (auto_render off, so nothing is displayed)
Move(e, x, y, collide) ==
  /\ Alive(e)
  /\ LET call == [NoCall EXCEPT !.op = "move", !.e = e, !.x = x, !.y = y,
                                !.v = collide, !.pos0 = pos[e], !.hid0 = hidden[e]]
     IN IF x = 0 /\ y = 0
        THEN /\ last' = call
             /\ UNCHANGED <<pos, hidden>>
        ELSE IF Collide(e, collide)
        THEN IF parent[e] = None
             THEN \* self.parent.render raises with the entity left hidden
                  /\ hidden' = [hidden EXCEPT ![e] = TRUE]
                  /\ last' = [call EXCEPT !.err = "AttributeError"]
                  /\ UNCHANGED pos
             ELSE \E bake \in {render(parent[e], attr[e].collisions,
                                      [hidden EXCEPT ![e] = TRUE], pos)} :
                  \E sx \in {step_collide(e, "X", x, pos[e], bake)} :
                  \E sy \in {step_collide(e, "Y", y, sx.pos, bake)} :
                     /\ pos' = [pos EXCEPT ![e] = sy.pos]
                     /\ hidden' = RestoreHidden(e, hidden[e])
                     /\ last' = [call EXCEPT !.ret = IF sx.hit \/ sy.hit THEN 1 ELSE 0]
        ELSE /\ pos' = [pos EXCEPT ![e] = PosValue(parent[e], Vec2DAdd(pos[e], <<x, y>>))]
             /\ last' = call
             /\ UNCHANGED hidden
  /\ stage' = <<>>
  /\ UNCHANGED <<scenes, children, parent, attr, frames, current_frame, image>>

\* scene.render(False, layers, False)
Render(s, layers) ==
  /\ stage' = render(s, layers, hidden, pos)
  /\ last' = [NoCall EXCEPT !.op = "render", !.v = s, !.layers = layers]
  /\ UNCHANGED <<scenes, children, parent, pos, hidden, attr, frames,
                 current_frame, image>>

\* --------------------------------------------------------- AnimatedSprite
\* a setter that clamps the index into range instead of wrapping it
FrameIndexClamped(value, n) ==
  IF value < 0 THEN 0 ELSE IF value >= n THEN n - 1 ELSE value

\* current_frame (setter), line 175: the index stored for a written value
FrameIndex(value, n) == PyMod(value, n)

\* AnimatedSprite.__init__(pos, frames): frames as passed, each a str
ConstructAnim(fs) ==
  /\ frames = <<>>
  /\ fs # <<>>
  /\ frames' = [i \in 1..Len(fs) |-> Strip(fs[i])]
  /\ current_frame' = 0
  /\ image' = Strip(fs[1])
  /\ last' = [NoCall EXCEPT !.op = "anim_init"]
  /\ stage' = <<>>
  /\ UNCHANGED <<scenes, children, parent, pos, hidden, attr>>

\* sprite.current_frame = value
SetCurrentFrame(value) ==
  /\ frames # <<>>
  /\ current_frame' = FrameIndex(value, Len(frames))
  /\ image' = frames[FrameIndex(value, Len(frames)) + 1]
  /\ last' = [NoCall EXCEPT !.op = "current_frame", !.x = value, !.y = current_frame]
  /\ stage' = <<>>
  /\ UNCHANGED <<scenes, children, parent, pos, hidden, attr, frames>>

\* next_frame, line 185: the value it writes to current_frame
NextValue(cur) == cur + 1

\* sprite.next_frame()
NextFrame ==
  /\ frames # <<>>
  /\ current_frame' = FrameIndex(NextValue(current_frame), Len(frames))
  /\ image' = frames[FrameIndex(NextValue(current_frame), Len(frames)) + 1]
  /\ last' = [NoCall EXCEPT !.op = "next_frame", !.y = current_frame]
  /\ stage' = <<>>
  /\ UNCHANGED <<scenes, children, parent, pos, hidden, attr, frames>>

\* ------------------------------------------------------------ the machines
\* Two scenes, no entity built yet, no AnimatedSprite built yet.
Init ==
  /\ scenes = [s \in Scenes |->
       IF s = "A"
       THEN [size |-> <<Width, 2>>, clear_char |-> SHADE, bg_colour |-> <<>>]
       ELSE [size |-> <<Width - 1, 2>>, clear_char |-> SHADE, bg_colour |-> GREEN]]
  /\ children = [s \in Scenes |-> <<>>]
  /\ parent = [e \in Ents |-> None]
  /\ pos = [e \in Ents |-> <<0, 0>>]
  /\ hidden = [e \in Ents |-> FALSE]
  /\ attr = [e \in Ents |-> NoEnt]
  /\ stage = <<>>
  /\ frames = <<>>
  /\ current_frame = 0
  /\ image = <<>>
  /\ last = NoCall

\* constructor arguments
PlainArgs(size, fill, colour, layer, collisions, hid) ==
  [kind |-> "Entity", size |-> size, fill_char |-> fill, colour |-> colour,
   layer |-> layer, collisions |-> collisions, hidden |-> hid,
   image |-> <<>>, transparent |-> TRUE]

SpriteArgs(img, transparent, colour, layer, collisions, hid) ==
  [kind |-> "Sprite", size |-> <<0, 0>>, fill_char |-> BLOCK, colour |-> colour,
   layer |-> layer, collisions |-> collisions, hidden |-> hid,
   image |-> img, transparent |-> transparent]

\* the deltas of a move
Deltas == {d \in (-MaxDelta..MaxDelta) \X (-MaxDelta..MaxDelta) :
             Abs(d[1]) + Abs(d[2]) <= MaxDelta}

\* -- Spec: parent, position and moves of entity e1 over two scenes; e2 stands by
Pair == {"e1", "e2"}
Coords == (0..Width) \X (0..1)
BasicArgs == {PlainArgs(<<1, 1>>, BLOCK, <<>>, 0, <<-1>>, FALSE)}

PosInputs == {<<0, 0>>, <<1, 1>>, <<Width - 1, 0>>, <<Width, 1>>}

ConstructBasic == \E a \in BasicArgs, p \in PosInputs, par \in Scenes \cup {None} :
  /\ Alive("e2")
  /\ Construct("e1", a, p, par)

ConstructOther ==
  Construct("e2", PlainArgs(<<1, 1>>, BLOCK, <<>>, 0, <<>>, FALSE), <<1, 0>>, "A")

AssignParent == \E v \in Scenes \cup {None} : SetParent("e1", v)

WritePos == \E p \in PosInputs : SetPos("e1", p)

MoveBasic == \E d \in Deltas, c \in {"None", "False"} :
  /\ parent["e1"] = None => Vec2DAdd(pos["e1"], d) \in Coords
  /\ Move("e1", d[1], d[2], c)

Next == ConstructBasic \/ ConstructOther \/ AssignParent \/ WritePos \/ MoveBasic

Spec == Init /\ [][Next]_vars

\* -- SpecParent: constructions and parent assignments, none included
ConstructAny == \E e \in Pair, a \in BasicArgs, par \in Scenes \cup {None} :
  Construct(e, a, <<0, 0>>, par)

AssignAny == \E e \in Pair, v \in Scenes \cup {None} : SetParent(e, v)

NextParent == ConstructAny \/ AssignAny

SpecParent == Init /\ [][NextParent]_vars

\* -- SpecAttach: constructions and parent assignments to scenes only
ConstructAttached == \E e \in Pair, a \in BasicArgs, par \in Scenes \cup {None} :
  Construct(e, a, <<0, 0>>, par)

AssignScene == \E e \in Pair, v \in Scenes : SetParent(e, v)

NextAttach == ConstructAttached \/ AssignScene

SpecAttach == Init /\ [][NextAttach]_vars

\* -- SpecMove: moves of entity e1 in scene "A", alone or beside e2
MoveArgs ==
  { PlainArgs(<<1, 1>>, BLOCK, <<>>, 0, <<-1>>, FALSE),
    PlainArgs(<<2, 1>>, BLOCK, RED, 1, <<-1>>, FALSE),
    PlainArgs(<<1, 2>>, SHADE, <<>>, 0, <<-1>>, FALSE),
    PlainArgs(<<1, 1>>, BLOCK, <<>>, 1, <<>>, TRUE),
    SpriteArgs(<<"x">>, FALSE, <<>>, 0, <<-1>>, FALSE),
    SpriteArgs(<<"x", NL, SPACE, "y">>, TRUE, <<>>, 1, <<1>>, FALSE) }

ObstacleArgs ==
  { PlainArgs(<<1, 1>>, BLOCK, <<>>, 0, <<-1>>, FALSE),
    PlainArgs(<<2, 1>>, BLOCK, RED, 1, <<-1>>, FALSE),
    PlainArgs(<<1, 2>>, SHADE, <<>>, 0, <<-1>>, FALSE),
    SpriteArgs(<<"x", NL, SPACE, "y">>, TRUE, <<>>, 1, <<-1>>, FALSE) }

ConstructMover == \E a \in MoveArgs, p \in Cells("A") : Construct("e1", a, p, "A")

ConstructObstacle == \E a \in ObstacleArgs, p \in {<<1, 0>>, <<Width - 1, 1>>} :
  /\ Alive("e1")
  /\ Construct("e2", a, p, "A")

\* collide is left out, or passed as True by an entity whose collisions are empty
MoveColliding == \E d \in Deltas, c \in {"None", "True"} :
  /\ c = "True" => attr["e1"].collisions = <<>>
  /\ Move("e1", d[1], d[2], c)

NextMove == ConstructMover \/ ConstructObstacle \/ MoveColliding

SpecMove == Init /\ [][NextMove]_vars

\* -- SpecRender: renders of scene "A" holding up to three assorted entities
RenderArgs ==
  { PlainArgs(<<1, 1>>, BLOCK, <<>>, 2, <<>>, FALSE),
    PlainArgs(<<2, 1>>, BLOCK, RED, 5, <<>>, FALSE),
    PlainArgs(<<1, 1>>, "o", <<>>, 0, <<>>, TRUE),
    PlainArgs(<<1, 1>>, "o", RED, 5, <<>>, TRUE),
    SpriteArgs(<<"x", NL, SPACE, "y">>, TRUE, <<>>, 2, <<>>, FALSE),
    SpriteArgs(<<"x">>, FALSE, <<>>, 0, <<>>, TRUE),
    SpriteArgs(<<VOID>>, TRUE, RED, 5, <<>>, FALSE) }

RenderPos == {<<0, 0>>, <<Width - 1, 1>>}

\* entities are added in the order e1, e2, e3, each with any of the arguments
ConstructShown == \E e \in Ents, a \in RenderArgs, p \in RenderPos :
  /\ e = "e2" => Alive("e1")
  /\ e = "e3" => Alive("e2")
  /\ Construct(e, a, p, "A")

RenderScene == \E layers \in {<<>>, <<-1>>, <<2, 5>>} : Render("A", layers)

NextRender == ConstructShown \/ RenderScene

SpecRender == Init /\ [][NextRender]_vars

\* -- SpecAnim: one AnimatedSprite
FrameStrs == {<<"O">>, <<"C">>, <<NL, "<">>, <<"C", NL>>}

RECURSIVE SeqsUpTo(_, _)
SeqsUpTo(S, n) ==
  IF n = 0 THEN {<<>>}
  ELSE LET shorter == SeqsUpTo(S, n - 1)
       IN shorter \cup {Append(q, x) : q \in shorter, x \in S}

BuildAnim == \E fs \in SeqsUpTo(FrameStrs, MaxFrames) : ConstructAnim(fs)

WriteFrame == \E n \in (-MaxIndex)..MaxIndex : SetCurrentFrame(n)

NextAnim == BuildAnim \/ WriteFrame \/ NextFrame

SpecAnim == Init /\ [][NextAnim]_vars

\* ================================================================= claims

\* ---- C8 (SpecAnim)
\* the frame the AnimatedSprite shows after k more next_frame() calls
RECURSIVE AfterNextFrames(_, _)
AfterNextFrames(cur, k) ==
  IF k = 0 THEN cur
  ELSE AfterNextFrames(FrameIndex(NextValue(cur), Len(frames)), k - 1)

\* C8: for an AnimatedSprite with a non-empty frame list, a write current_frame = n
\* of any integer n does not fail and leaves 0 <= current_frame < len(frames) with
\* current_frame congruent to n modulo len(frames) and image = frames[current_frame];
\* next_frame() advances current_frame by one, wrapping to 0 after the last frame,
\* and len(frames) consecutive next_frame() calls lead back to the same
\* current_frame and image.
C8_CurrentFrameWraps ==
  frames # <<>> =>
    /\ current_frame \in 0..(Len(frames) - 1)
    /\ image = frames[current_frame + 1]
    /\ last.op = "current_frame" =>
         /\ last.err = None
         /\ \E q \in (-(MaxIndex + 1))..(MaxIndex + 1) :
              last.x = q * Len(frames) + current_frame
    /\ last.op = "next_frame" =>
         current_frame = (IF last.y + 1 = Len(frames) THEN 0 ELSE last.y + 1)
    /\ AfterNextFrames(current_frame, Len(frames)) = current_frame
    /\ frames[AfterNextFrames(current_frame, Len(frames)) + 1] = image

\* C8 witness: a negative index was written to a sprite of three distinct frames
\* and the last frame is shown
C8_Witness ==
  /\ Len(frames) = 3
  /\ frames[1] # frames[3]
  /\ last.op = "current_frame"
  /\ last.x = -1
  /\ current_frame = 2
  /\ image = frames[3]

\* ---- C2, C7 (SpecRender)
\* the entities the last render painted
Rendered == {e \in Ents : InSeq(entity_list(last.v, last.layers), e)}

\* the local cells of e that land on cell c of scene s
LocalCellsAt(s, e, c) ==
  {xy \in (0..(attr[e].size[1] - 1)) \X (0..(attr[e].size[2] - 1)) :
     correct_position(Vec2DAdd(pos[e], xy), scenes[s].size) = c}

\* what e writes to cell c, if anything
PixelsAt(s, e, c) ==
  {CellText(e, xy[1], xy[2], hidden) :
     xy \in {l \in LocalCellsAt(s, e, c) : ~Skipped(e, l[1], l[2], hidden)}}

Painters(s, c) == {e \in Rendered : PixelsAt(s, e, c) # {}}

IndexIn(s, e) == CHOOSE i \in 1..Len(children[s]) :
  children[s][i] = e /\ \A j \in 1..(i - 1) : children[s][j] # e

Covering(s, c) == {e \in Ents : InSeq(children[s], e) /\ LocalCellsAt(s, e, c) # {}}

\* C7: in the stage Scene.render returns, every cell covered only by hidden entities
\* equals get_background(), so that is_entity_at is false there.
C7_HiddenShowsBackground ==
  last.op = "render" =>
    \A c \in Cells(last.v) :
      (Covering(last.v, c) # {} /\ \A e \in Covering(last.v, c) : hidden[e])
        => /\ stage[c] = get_background(last.v)
           /\ ~is_entity_at(last.v, c, stage)

\* ---- C1, C6, C10 (SpecMove)
\* the bake a collision move of last.e took: the scene rendered on the layers the
\* entity collides with, the entity hidden at the position it started from
BakeAtStart ==
  render(parent[last.e], attr[last.e].collisions,
         [hidden EXCEPT ![last.e] = TRUE], [pos EXCEPT ![last.e] = last.pos0])

\* the cells entity e, standing at p0, would newly cover with its (j+1)-th unit step
\* of a move by p along axis
EdgeCells(e, axis, p, p0, j) ==
  LET ahead == IF p > 0 THEN attr[e].size[IF axis = "X" THEN 1 ELSE 2] + j ELSE -(j + 1)
  IN IF axis = "X"
     THEN {correct_position(<<p0[1] + ahead, p0[2] + w>>, scenes[parent[e]].size) :
             w \in 0..(attr[e].size[2] - 1)}
     ELSE {correct_position(<<p0[1] + w, p0[2] + ahead>>, scenes[parent[e]].size) :
             w \in 0..(attr[e].size[1] - 1)}

EdgeFree(e, axis, p, p0, j, bake) ==
  \A c \in EdgeCells(e, axis, p, p0, j) : bake[c] = get_background(parent[e])

\* the number of consecutive collision-free unit steps
FreeSteps(e, axis, p, p0, bake) ==
  CHOOSE k \in 0..Abs(p) :
    /\ \A j \in 0..(k - 1) : EdgeFree(e, axis, p, p0, j, bake)
    /\ k = Abs(p) \/ ~EdgeFree(e, axis, p, p0, k, bake)

CollisionMoveReturned ==
  last.op = "move" /\ last.err = None /\ Collide(last.e, last.v)

\* C1: a move(dx, dy) with collisions enabled advances kx unit steps along X and then,
\* from the position reached, ky unit steps along Y, where k is the number of
\* consecutive steps (0 <= k <= |delta|) whose whole leading edge is background in the
\* bake taken at the start of the move; it returns 1 iff kx < |dx| or ky < |dy|,
\* else 0. A leading edge that is blocked at the first step gives 1 and no advance
\* on that axis.
C1_StepwiseCollision ==
  CollisionMoveReturned =>
    \E bake \in {BakeAtStart} :
    \E kx \in {FreeSteps(last.e, "X", last.x, last.pos0, bake)} :
    \E px \in {correct_position(Vec2DAdd(last.pos0, <<kx * Sign(last.x), 0>>),
                                scenes[parent[last.e]].size)} :
    \E ky \in {FreeSteps(last.e, "Y", last.y, px, bake)} :
      /\ pos[last.e] = correct_position(Vec2DAdd(px, <<0, ky * Sign(last.y)>>),
                                        scenes[parent[last.e]].size)
      /\ last.ret = (IF kx < Abs(last.x) \/ ky < Abs(last.y) THEN 1 ELSE 0)
      /\ (last.x # 0 /\ ~EdgeFree(last.e, "X", last.x, last.pos0, 0, bake))
           => last.ret = 1 /\ pos[last.e][1] = last.pos0[1]
      /\ (last.y # 0 /\ ~EdgeFree(last.e, "Y", last.y, px, 0, bake))
           => last.ret = 1 /\ pos[last.e][2] = px[2]

\* C1 witness: a diagonal move of a two-cell-wide entity that was blocked at once
\* on X by the other entity and advanced its one step on Y
C1_Witness ==
  /\ CollisionMoveReturned
  /\ Alive("e2")
  /\ attr[last.e].size = <<2, 1>>
  /\ last.x = 1 /\ last.y = 1
  /\ last.ret = 1
  /\ pos[last.e] = <<last.pos0[1], 1 - last.pos0[2]>>

\* C6: in a scene whose only child is the moving entity, a move with collisions
\* enabled returns 0 and applies the whole delta (mod the scene's size).
C6_NoSelfCollision ==
  (CollisionMoveReturned /\ children[parent[last.e]] = <<last.e>>) =>
    /\ last.ret = 0
    /\ pos[last.e] = correct_position(Vec2DAdd(last.pos0, <<last.x, last.y>>),
                                      scenes[parent[last.e]].size)

\* the cells of e's bounding box, wraparound-corrected
Box(e) ==
  {correct_position(Vec2DAdd(pos[e], xy), scenes[parent[e]].size) :
     xy \in (0..(attr[e].size[1] - 1)) \X (0..(attr[e].size[2] - 1))}

NoOverlap ==
  \A a, b \in {e \in Ents : Alive(e)} : a # b => Box(a) \cap Box(b) = {}

\* only visible plain Entities, none larger than the scene, all colliding with all layers
PlainVisibleColliding ==
  \A e \in {x \in Ents : Alive(x)} :
    /\ attr[e].kind = "Entity"
    /\ ~hidden[e]
    /\ attr[e].size[1] <= scenes[parent[e]].size[1]
    /\ attr[e].size[2] <= scenes[parent[e]].size[2]
    /\ attr[e].collisions = <<-1>>

\* what a cell painted by a plain entity holds differs from the background
PaintedUnlikeBackground ==
  \A e \in {x \in Ents : Alive(x)} :
    CellText(e, 0, 0, hidden) # get_background(parent[e])

CollisionMoveStep == last'.op = "move" /\ Collide(last'.e, last'.v)

\* C10 as stated: among visible plain Entities that collide with all layers, a
\* collision move keeps the bounding boxes disjoint and the hidden flags as they were.
C10_MovesKeepDisjoint ==
  [][(PlainVisibleColliding /\ NoOverlap /\ CollisionMoveStep)
       => (NoOverlap' /\ hidden' = hidden)]_vars

\* C10 amended: the same, among entities whose painted cells differ from the
\* scene's background.
C10_VisiblyPaintedKeepDisjoint ==
  [][(PlainVisibleColliding /\ PaintedUnlikeBackground /\ NoOverlap /\ CollisionMoveStep)
       => (NoOverlap' /\ hidden' = hidden)]_vars

\* C10 witness: among two such entities a move was stopped short by the other one
\* after advancing, and the boxes are still disjoint
C10_Witness ==
  /\ CollisionMoveReturned
  /\ Alive("e2")
  /\ PlainVisibleColliding /\ PaintedUnlikeBackground
  /\ last.ret = 1
  /\ pos[last.e] # last.pos0
  /\ NoOverlap
  /\ ~hidden[last.e]

\* ---- C3, C4 (Spec)
\* a is b reduced modulo n: 0 <= a < n and n divides b - a
IsResidue(a, b, n) ==
  /\ 0 <= a /\ a < n
  /\ \E q \in (-(Width + MaxDelta))..(Width + MaxDelta) : b = q * n + a

\* the collide argument of the last call resolves to falsy: False was passed, or
\* it was left out and the entity's collisions list is empty
CollideFalsy ==
  IF last.v = "None" THEN attr[last.e].collisions = <<>> ELSE last.v = "False"

PlainMoveReturned ==
  /\ last.op = "move" /\ last.err = None
  /\ CollideFalsy
  /\ parent[last.e] # None

Wrapped(e, target) ==
  /\ IsResidue(pos[e][1], target[1], scenes[parent[e]].size[1])
  /\ IsResidue(pos[e][2], target[2], scenes[parent[e]].size[2])

\* C3 as stated: a move(dx, dy) with collisions disabled sets pos to
\* ((pos.x + dx) mod width, (pos.y + dy) mod height) of the parent scene and
\* returns 0, for any dx, dy.
C3_PlainMoveWraps ==
  PlainMoveReturned =>
    /\ Wrapped(last.e, Vec2DAdd(last.pos0, <<last.x, last.y>>))
    /\ last.ret = 0

\* C3 amended: the same for dx, dy not both zero; move(0, 0) returns 0 and leaves pos
\* untouched.
C3_NonZeroPlainMoveWraps ==
  PlainMoveReturned =>
    /\ last.ret = 0
    /\ (last.x # 0 \/ last.y # 0)
         => Wrapped(last.e, Vec2DAdd(last.pos0, <<last.x, last.y>>))
    /\ (last.x = 0 /\ last.y = 0) => pos[last.e] = last.pos0

\* C3 witness: a move without collisions wrapped past the right edge of scene "A"
\* onto the cell the other entity of the scene occupies
C3_Witness ==
  /\ PlainMoveReturned
  /\ parent[last.e] = "A" /\ parent["e2"] = "A"
  /\ last.e # "e2"
  /\ last.pos0[1] + last.x >= Width
  /\ pos[last.e] = pos["e2"]
  /\ pos[last.e][1] = last.pos0[1] + last.x - Width

InBoundsOf(p, par) ==
  /\ 0 <= p[1] /\ p[1] < scenes[par].size[1]
  /\ 0 <= p[2] /\ p[2] < scenes[par].size[2]

InBounds(e) == parent[e] # None => InBoundsOf(pos[e], parent[e])

\* C4 as stated: every entity that has a parent lies within the parent's size.
C4_PosWithinParent == \A e \in Ents : Alive(e) => InBounds(e)

\* the call that was just made wrote the position of its entity
WrotePos ==
  \/ last.op \in {"init", "pos"}
  \/ last.op = "move" /\ last.err = None /\ (last.x # 0 \/ last.y # 0)

\* C4 amended: a construction, a pos write and a non-zero move leave the entity
\* within its parent's size, and an entity within its parent's size stays so as
\* long as its parent is not reassigned (a parent assignment leaves pos as it is).
C4_PosWithinParentOnWrite ==
  [][/\ WrotePos' =>
          (parent'[last'.e] # None => InBoundsOf(pos'[last'.e], parent'[last'.e]))
     /\ \A e \in Ents :
          (Alive(e) /\ parent[e] # None /\ parent'[e] = parent[e] /\ InBounds(e))
            => InBounds(e)']_vars

\* C4 witness: a move brought an entity that lay outside its parent's size (left
\* there by a parent assignment) back inside
C4_Witness ==
  /\ last.op = "move" /\ last.err = None
  /\ parent[last.e] # None
  /\ ~InBoundsOf(last.pos0, parent[last.e])
  /\ InBounds(last.e)

\* ---- C5 (SpecParent)
\* C5: after entity.parent = v, with v another scene than the current parent or
\* none, the assignment has succeeded, the entity is no longer among the old
\* parent's children; if v is a scene the entity is among v's children and its
\* parent is v; if v is none its parent is none and no scene holds it.
C5_ParentAssignment ==
  (last.op = "parent" /\ (last.v # last.old \/ last.v = None)) =>
    /\ last.err = None
    /\ last.old # None => ~InSeq(children[last.old], last.e)
    /\ last.v # None => InSeq(children[last.v], last.e) /\ parent[last.e] = last.v
    /\ last.v = None =>
         /\ parent[last.e] = None
         /\ \A s \in Scenes : ~InSeq(children[s], last.e)

\* ---- C9 (SpecAttach)
\* C9: every entity that has a parent occurs exactly once in the children of its
\* parent and in the children of no other scene.
C9_ListedOnce ==
  \A e \in Ents : (Alive(e) /\ parent[e] # None) =>
    \A s \in Scenes : Count(children[s], e) = (IF s = parent[e] THEN 1 ELSE 0)

====
